---- MODULE Spec2Model ----
(***************************************************************************)
(* Attendance check-in service (src/main.py): the /checkin and             *)
(* /export-today request handlers over the on-disk store (image files,     *)
(* daily CSV partitions, exported workbooks), run by a pool of worker      *)
(* threads, with the wall clock as part of the state.                      *)
(*                                                                         *)
(* Text is modelled as TLA+ strings, built and taken apart character by    *)
(* character.  A float is named by an index into the table of its repr()   *)
(* (0 is None); a distance is an integer number of micrometres.            *)
(***************************************************************************)
EXTENDS Integers, Sequences, FiniteSets, TLC

\* ------------------------------------------------------------- bounds
NProcs == 2      \* worker threads serving requests
MaxCheckins == 2 \* check-in requests accepted in one run
MaxExports == 1  \* export requests accepted in one run
MaxDay == 2      \* calendar days the clock runs through

\* ---------------------------------------------------- program constants
MAX_DISTANCE_METERS == 50

DATA_DIR == "data"
IMAGES_DIR == DATA_DIR \o "/" \o "images"

Procs == 1..NProcs

\* ------------------------------------------------------ text helpers
DigitChars == <<"0", "1", "2", "3", "4", "5", "6", "7", "8", "9">>
Digit(n) == DigitChars[n + 1]

\* "%02d"
Pad2(n) == Digit((n \div 10) % 10) \o Digit(n % 10)

\* "%04d"
Pad4(n) == Pad2(n \div 100) \o Pad2(n % 100)

\* str(int) for n >= 0
RECURSIVE IntText(_)
IntText(n) == IF n < 10 THEN Digit(n) ELSE IntText(n \div 10) \o Digit(n % 10)

\* s[i] for 1 <= i <= Len(s)
CharAt(s, i) == SubSeq(s, i, i)

\* str.replace(old, new) for one-character old
RECURSIVE Replace(_, _, _)
Replace(s, old, new) ==
    IF Len(s) = 0 THEN ""
    ELSE (IF CharAt(s, 1) = old THEN new ELSE CharAt(s, 1))
             \o Replace(SubSeq(s, 2, Len(s)), old, new)

\* index of the first occurrence of character c in s, 0 when there is none
RECURSIVE IndexOf(_, _, _)
IndexOf(s, c, i) ==
    IF i > Len(s) THEN 0
    ELSE IF CharAt(s, i) = c THEN i ELSE IndexOf(s, c, i + 1)

\* os.path.join(dir, name)
PathJoin(dir, name) == dir \o "/" \o name

\* -------------------------------------------------------- the clock
\* datetime.now().strftime("%Y-%m-%d")
StrfDate(t) == Pad4(t.year) \o "-" \o Pad2(t.month) \o "-" \o Pad2(t.day)

\* datetime.now().strftime("%H:%M:%S")
StrfTime(t) == Pad2(t.hour) \o ":" \o Pad2(t.minute) \o ":" \o Pad2(t.second)

get_today_str(clk) == StrfDate(clk)

get_today_csv_path(clk) ==
    PathJoin(DATA_DIR, "davomat_" \o get_today_str(clk) \o ".csv")

\* ------------------------------------------------------ coordinates
\* Optional[float]: 0 is None, i > 0 names the float whose repr is in the table.
None == 0
LatRepr == << "40.68560701258604", "40.685984205496865", "40.68605672", "40.6866" >>
LngRepr == << "71.90455733991762", "71.90488015097581" >>
OFFICE_LAT == 1
OFFICE_LNG == 1

\* distance_m(lat, lng, OFFICE_LAT, OFFICE_LNG) in micrometres, rounded down:
\* the Haversine formula evaluated in IEEE doubles on the tabled coordinates.
\* (LatRepr[2], LngRepr[2]) lies at exactly 50.0 m.
DistanceTable ==
    << << 0,         27219074  >>,
       << 41941938,  50000000  >>,
       << 50005182,  56933218  >>,
       << 110415162, 113720601 >> >>

distance_m(lat1, lng1, lat2, lng2) ==
    IF lat1 = lat2 /\ lng1 = lng2 THEN 0
    ELSE IF lat2 = OFFICE_LAT /\ lng2 = OFFICE_LNG THEN DistanceTable[lat1][lng1]
    ELSE DistanceTable[lat2][lng2]

\* round(dist, 2), in centimetres (no tabled distance is at a tie)
Round2(dist) == (dist + 5000) \div 10000

\* int(dist), in metres
IntDist(dist) == dist \div 1000000

\* str(x) of a float x with at most two decimals, given in centimetres
FloatText(cm) ==
    IntText(cm \div 100) \o "."
        \o (IF cm % 10 = 0 THEN Digit((cm \div 10) % 10) ELSE Pad2(cm % 100))

\* ------------------------------------------------------ image payload
B64Alphabet ==
    { "A", "B", "C", "D", "E", "F", "G", "H", "I", "J", "K", "L", "M",
      "N", "O", "P", "Q", "R", "S", "T", "U", "V", "W", "X", "Y", "Z",
      "a", "b", "c", "d", "e", "f", "g", "h", "i", "j", "k", "l", "m",
      "n", "o", "p", "q", "r", "s", "t", "u", "v", "w", "x", "y", "z",
      "0", "1", "2", "3", "4", "5", "6", "7", "8", "9", "+", "/" }

\* the characters of s that are base64 data characters (the decoder
\* discards every other character)
RECURSIVE B64Data(_)
B64Data(s) ==
    IF Len(s) = 0 THEN ""
    ELSE (IF CharAt(s, 1) \in B64Alphabet THEN CharAt(s, 1) ELSE "")
             \o B64Data(SubSeq(s, 2, Len(s)))

RECURSIVE CountChar(_, _)
CountChar(s, c) ==
    IF Len(s) = 0 THEN 0
    ELSE (IF CharAt(s, 1) = c THEN 1 ELSE 0) + CountChar(SubSeq(s, 2, Len(s)), c)

\* the part of the payload that is decoded: after the first comma, if any
B64Part(image_base64) ==
    LET i == IndexOf(image_base64, ",", 1)
    IN  IF i > 0 THEN SubSeq(image_base64, i + 1, Len(image_base64))
        ELSE image_base64

\* base64.b64decode raises unless the data characters fill whole quads,
\* the last one completed by padding
B64Decodable(b64data) ==
    LET n == Len(B64Data(b64data))
        q == CountChar(b64data, "=")
    IN  \/ n % 4 = 0
        \/ n % 4 = 2 /\ q >= 2
        \/ n % 4 = 3 /\ q >= 1

\* the decoded bytes, named by the data characters that encode them
B64Decode(b64data) == "b64:" \o B64Data(b64data)

\* ------------------------------------------------------------ state
VARIABLES
    now,       \* the wall clock: [year, month, day, hour, minute, second]
    images,    \* the image store: path under IMAGES_DIR -> bytes written
    csv,       \* the log partitions: path of a day's CSV file -> its rows
    xlsx,      \* the exported workbooks: path -> sheet
    th,        \* per worker thread: the handler it runs, its position and locals
    appended,  \* the check-ins that completed their append, in completion order
    nreq       \* requests accepted so far: [checkin, export]

vars == <<now, images, csv, xlsx, th, appended, nreq>>

\* class CheckIn
NoData == [image_base64 |-> "", mode |-> "", lat |-> None, lng |-> None]

\* a worker between requests
IdleThread ==
    [ pc |-> "idle", data |-> NoData,
      date_str |-> "", time_str |-> "", mode_text |-> "", status |-> "",
      is_late |-> FALSE, dist |-> 0, img_bytes |-> "", filename |-> "",
      csv_path |-> "", file_exists |-> FALSE,
      today |-> "", xlsx_path |-> "",
      error |-> <<>>, response |-> <<>> ]

\* raise HTTPException(status_code, detail)
HTTPException(t, status_code, detail) ==
    [t EXCEPT !.pc = "failed",
              !.error = << [status_code |-> status_code, detail |-> detail] >>]

\* an exception that is no HTTPException leaves the handler: the framework
\* answers 500
Unhandled(t, what) ==
    [t EXCEPT !.pc = "error",
              !.error = << [status_code |-> 500, detail |-> what] >>]

\* ------------------------------------------------ check-in, lines 78-116
ValidMode(mode) == mode \in {"arrival", "departure"}

\* variant: the seconds count towards lateness
IsLate_seconds(clk) ==
    clk.hour > 8 \/ (clk.hour = 8 /\ (clk.minute > 0 \/ clk.second > 0))

\* variant: late from eight o'clock on
IsLate_from_eight(clk) == clk.hour >= 8

\* line 88
IsLate(clk) == clk.hour > 8 \/ (clk.hour = 8 /\ clk.minute > 0)

\* lines 87-94: lateness flag, status label, mode label
Classify(mode, clk) ==
    IF mode = "arrival"
    THEN [ is_late |-> IsLate(clk),
           status |-> IF IsLate(clk) THEN "KECHIKIB KELDI" ELSE "O'z vaqtida keldi",
           mode_text |-> "Ishga keldi" ]
    ELSE [ is_late |-> FALSE, status |-> "Ishdan ketdi", mode_text |-> "Ishdan ketdi" ]

MissingLocation(data) == data.lat = None \/ data.lng = None

\* variant: the radius itself is outside
OutOfGeofence_inclusive(dist) == dist >= MAX_DISTANCE_METERS * 1000000

\* line 101
OutOfGeofence(dist) == dist > MAX_DISTANCE_METERS * 1000000

\* The handler from its entry to the end of the payload decoding: it reads
\* the clock once and touches no file.
CheckinValidate(data, clk) ==
    LET t0 == [IdleThread EXCEPT !.data = data,
                                 !.date_str = StrfDate(clk),
                                 !.time_str = StrfTime(clk)]
    IN  IF ~ValidMode(data.mode)
        THEN HTTPException(t0, 400, "Mode noto'g'ri")
        ELSE
        LET c  == Classify(data.mode, clk)
            t1 == [t0 EXCEPT !.is_late = c.is_late, !.status = c.status,
                             !.mode_text = c.mode_text]
        IN  IF MissingLocation(data)
            THEN HTTPException(t1, 400, "Geolokatsiya talab qilinadi")
            ELSE
            LET dist == distance_m(data.lat, data.lng, OFFICE_LAT, OFFICE_LNG)
                t2   == [t1 EXCEPT !.dist = dist]
            IN  IF OutOfGeofence(dist)
                THEN HTTPException(t2, 400,
                         "Siz ish joyi hududida emassiz (taxminiy masofa "
                             \o IntText(IntDist(dist)) \o " m).")
                ELSE IF ~B64Decodable(B64Part(data.image_base64))
                THEN HTTPException(t2, 400, "Rasm formatida xato")
                ELSE [t2 EXCEPT !.pc = "save_image",
                                !.img_bytes = B64Decode(B64Part(data.image_base64))]

\* uuid.uuid4().hex[:6]
Suffixes == {"3fa94c", "b07e12"}

ImageFilename(t, suffix) ==
    t.date_str \o "_" \o Replace(t.time_str, ":", "-") \o "_" \o suffix \o ".jpg"

\* a worker whose handler has returned or raised
AtRest(t) == t.pc \in {"idle", "done", "failed", "error", "x_done"}

\* variant: the image is decoded and saved before the geofence is checked
checkin_begin_saves_first(p, data) ==
    /\ th[p].pc = "idle"
    /\ nreq.checkin < MaxCheckins
    /\ th' = [th EXCEPT ![p] = CheckinValidate(data, now)]
    /\ nreq' = [nreq EXCEPT !.checkin = @ + 1]
    /\ images' =
           IF /\ ValidMode(data.mode)
              /\ ~MissingLocation(data)
              /\ B64Decodable(B64Part(data.image_base64))
           THEN (PathJoin(IMAGES_DIR,
                          ImageFilename(CheckinValidate(data, now), "3fa94c"))
                     :> B64Decode(B64Part(data.image_base64))) @@ images
           ELSE images
    /\ UNCHANGED <<now, csv, xlsx, appended>>

checkin_begin(p, data) ==
    /\ th[p].pc = "idle"
    /\ nreq.checkin < MaxCheckins
    /\ th' = [th EXCEPT ![p] = CheckinValidate(data, now)]
    /\ nreq' = [nreq EXCEPT !.checkin = @ + 1]
    /\ UNCHANGED <<now, images, csv, xlsx, appended>>

\* ----------------------------------------------- check-in, lines 118-121
\* open(img_path, "wb") creates or truncates the file, write() fills it
checkin_save_image(p) ==
    /\ th[p].pc = "save_image"
    /\ \E suffix \in Suffixes :
         LET filename == ImageFilename(th[p], suffix)
             img_path == PathJoin(IMAGES_DIR, filename)
         IN  /\ images' = (img_path :> th[p].img_bytes) @@ images
             /\ th' = [th EXCEPT ![p].filename = filename, ![p].pc = "csv_path"]
    /\ UNCHANGED <<now, csv, xlsx, appended, nreq>>

\* variant: the failure of the image write is swallowed and the handler goes on
checkin_save_image_fails_swallowed(p) ==
    /\ th[p].pc = "save_image"
    /\ \E suffix \in Suffixes :
         th' = [th EXCEPT ![p].filename = ImageFilename(th[p], suffix),
                          ![p].pc = "csv_path"]
    /\ UNCHANGED <<now, images, csv, xlsx, appended, nreq>>

\* the image write fails (disk full, permission denied): open() raised and
\* nothing was written, or write() raised and the file is left empty; the
\* exception leaves the handler
checkin_save_image_fails(p) ==
    /\ th[p].pc = "save_image"
    /\ \/ images' = images
       \/ \E suffix \in Suffixes :
            images' = (PathJoin(IMAGES_DIR, ImageFilename(th[p], suffix)) :> "")
                          @@ images
    /\ th' = [th EXCEPT ![p] = Unhandled(th[p], "OSError")]
    /\ UNCHANGED <<now, csv, xlsx, appended, nreq>>

\* ----------------------------------------------- check-in, lines 124-126
\* variant: the partition is never found to exist
checkin_csv_path_never_exists(p) ==
    /\ th[p].pc = "csv_path"
    /\ th' = [th EXCEPT ![p].csv_path = get_today_csv_path(now),
                        ![p].file_exists = FALSE,
                        ![p].pc = "open"]
    /\ UNCHANGED <<now, images, csv, xlsx, appended, nreq>>

\* get_today_csv_path() reads the clock again
checkin_csv_path(p) ==
    /\ th[p].pc = "csv_path"
    /\ LET csv_path == get_today_csv_path(now)
       IN  th' = [th EXCEPT ![p].csv_path = csv_path,
                            ![p].file_exists = (csv_path \in DOMAIN csv),
                            ![p].pc = "open"]
    /\ UNCHANGED <<now, images, csv, xlsx, appended, nreq>>

\* --------------------------------------------------- check-in, line 128
\* open(csv_path, "a") creates the file when it does not exist; what the
\* writer writes stays in the file object's buffer until the file is closed
checkin_open(p) ==
    /\ th[p].pc = "open"
    /\ csv' = IF th[p].csv_path \in DOMAIN csv THEN csv
              ELSE (th[p].csv_path :> <<>>) @@ csv
    /\ th' = [th EXCEPT ![p].pc = "write"]
    /\ UNCHANGED <<now, images, xlsx, appended, nreq>>

checkin_open_fails(p) ==
    /\ th[p].pc = "open"
    /\ th' = [th EXCEPT ![p] = Unhandled(th[p], "OSError")]
    /\ UNCHANGED <<now, images, csv, xlsx, appended, nreq>>

\* ----------------------------------------------- check-in, lines 129-156
HeaderRow == <<"sana", "vaqt", "mode", "status", "image_file", "lat", "lng", "dist_m">>

\* the data row as csv.writer writes it: every value as its str()
DataRow(t) ==
    << t.date_str, t.time_str, t.mode_text, t.status, t.filename,
       LatRepr[t.data.lat], LngRepr[t.data.lng], FloatText(Round2(t.dist)) >>

\* variant: the header is written only into a partition that is still empty
\* at the write
RowsWritten_rechecks(t) ==
    (IF csv[t.csv_path] = << >> THEN <<HeaderRow>> ELSE <<>>) \o <<DataRow(t)>>

\* the rows one check-in flushes in one write when its file is closed
RowsWritten(t) ==
    (IF ~t.file_exists THEN <<HeaderRow>> ELSE <<>>) \o <<DataRow(t)>>

Response(t) ==
    [ date |-> t.date_str, time |-> t.time_str, mode_text |-> t.mode_text,
      status |-> t.status, is_late |-> t.is_late, image_url |-> t.filename,
      distance_m |-> IntDist(t.dist) ]

checkin_write(p) ==
    /\ th[p].pc = "write"
    /\ csv' = [csv EXCEPT ![th[p].csv_path] = @ \o RowsWritten(th[p])]
    /\ appended' = Append(appended,
           [ date_str |-> th[p].date_str, time_str |-> th[p].time_str,
             mode_text |-> th[p].mode_text, status |-> th[p].status,
             filename |-> th[p].filename, lat |-> th[p].data.lat,
             lng |-> th[p].data.lng, dist |-> th[p].dist,
             csv_path |-> th[p].csv_path, file_exists |-> th[p].file_exists ])
    /\ th' = [th EXCEPT ![p].pc = "done", ![p].response = <<Response(th[p])>>]
    /\ UNCHANGED <<now, images, xlsx, nreq>>

\* the flush at close fails: nothing reaches the file
checkin_write_fails(p) ==
    /\ th[p].pc = "write"
    /\ th' = [th EXCEPT ![p] = Unhandled(th[p], "OSError")]
    /\ UNCHANGED <<now, images, csv, xlsx, appended, nreq>>

\* ------------------------------------------------------ export, line 162
\* today = get_today_str(): the first reading of the clock
export_begin(p) ==
    /\ th[p].pc = "idle"
    /\ nreq.export < MaxExports
    /\ th' = [th EXCEPT ![p] = [IdleThread EXCEPT !.pc = "x_path",
                                                  !.today = get_today_str(now)]]
    /\ nreq' = [nreq EXCEPT !.export = @ + 1]
    /\ UNCHANGED <<now, images, csv, xlsx, appended>>

\* ------------------------------------------------- export, lines 163-168
\* get_today_csv_path() reads the clock again
export_csv_path(p) ==
    /\ th[p].pc = "x_path"
    /\ LET csv_path == get_today_csv_path(now)
           t0       == [th[p] EXCEPT !.csv_path = csv_path]
       IN  th' = [th EXCEPT ![p] =
                     IF csv_path \notin DOMAIN csv
                     THEN HTTPException(t0, 404, "Bugungi davomat topilmadi")
                     ELSE [t0 EXCEPT !.pc = "x_build",
                                     !.xlsx_path = PathJoin(DATA_DIR,
                                         "davomat_" \o th[p].today \o ".xlsx")]]
    /\ UNCHANGED <<now, images, csv, xlsx, appended, nreq>>

\* ------------------------------------------------- export, lines 170-210
Range(s) == { s[i] : i \in DOMAIN s }

\* dict(zip(keys, vals)): a later duplicate of a key wins
DictZip(keys, vals) ==
    [ k \in Range(keys) |->
        vals[CHOOSE i \in DOMAIN keys :
                 /\ keys[i] = k
                 /\ \A j \in DOMAIN keys : keys[j] = k => j <= i] ]

\* variant: the keys are fixed and the first row of the file is read as data
DictReader_keeps_first_row(rows) ==
    [ i \in 1..Len(rows) |-> DictZip(HeaderRow, rows[i]) ]

\* csv.DictReader: the first row of the file gives the keys of every other row
DictReader(rows) ==
    [ i \in 1..(Len(rows) - 1) |-> DictZip(rows[1], rows[i + 1]) ]

\* row[key] raises KeyError when the key is missing
RequiredKeys == {"sana", "vaqt", "mode", "status", "image_file"}

\* row.get(key): None (an empty cell) when the key is missing
DictGet(row, key) == IF key \in DOMAIN row THEN row[key] ELSE ""

SheetHeader == <<"Rasm", "Sana", "Vaqt", "Amal", "Status", "Lat", "Lng", "Masofa (m)">>

\* the worksheet built from the rows read: ws.append(header), then columns
\* 2 to 8 of sheet row i + 1 from the i-th row read (column 1 holds no
\* value), an 80 x 80 image anchored at A<i + 1> when the image file
\* exists, and the row height
BuildSheet(recs, imgs) ==
    [ title |-> "Davomat",
      rows |-> <<SheetHeader>> \o
          [ i \in DOMAIN recs |->
              << "", recs[i]["sana"], recs[i]["vaqt"], recs[i]["mode"],
                 recs[i]["status"], DictGet(recs[i], "lat"),
                 DictGet(recs[i], "lng"), DictGet(recs[i], "dist_m") >> ],
      images |->
          { [ anchor |-> "A" \o IntText(i + 1),
              file |-> PathJoin(IMAGES_DIR, recs[i]["image_file"]),
              width |-> 80, height |-> 80 ] :
            i \in { j \in DOMAIN recs :
                      PathJoin(IMAGES_DIR, recs[j]["image_file"]) \in DOMAIN imgs } },
      row_height |-> [ r \in { i + 1 : i \in DOMAIN recs } |-> 60 ] ]

export_build(p) ==
    /\ th[p].pc = "x_build"
    /\ LET recs == DictReader(csv[th[p].csv_path])
       IN  IF \E i \in DOMAIN recs : ~(RequiredKeys \subseteq DOMAIN recs[i])
           THEN /\ th' = [th EXCEPT ![p] = Unhandled(th[p], "KeyError")]
                /\ xlsx' = xlsx
           ELSE /\ xlsx' = (th[p].xlsx_path :> BuildSheet(recs, images)) @@ xlsx
                /\ th' = [th EXCEPT ![p].pc = "x_done",
                                    ![p].response = << [path |-> th[p].xlsx_path] >>]
    /\ UNCHANGED <<now, images, csv, appended, nreq>>

\* ------------------------------------------------------ environment
\* the answer leaves the server and the worker is free for the next request
finish(p) ==
    /\ AtRest(th[p])
    /\ th[p].pc # "idle"
    /\ th' = [th EXCEPT ![p] = IdleThread]
    /\ UNCHANGED <<now, images, csv, xlsx, appended, nreq>>

\* the instants of a day at which the clock is read
TickTimes == << <<8, 0, 0>>, <<23, 59, 59>> >>

SecondOfDay(h, m, s) == (h * 60 + m) * 60 + s

\* time passes: the clock moves to the next instant
Tick ==
    /\ LET later == { i \in DOMAIN TickTimes :
                        SecondOfDay(TickTimes[i][1], TickTimes[i][2], TickTimes[i][3])
                            > SecondOfDay(now.hour, now.minute, now.second) }
       IN  IF later # {}
           THEN LET i == CHOOSE k \in later : \A j \in later : k <= j
                IN  now' = [now EXCEPT !.hour = TickTimes[i][1],
                                       !.minute = TickTimes[i][2],
                                       !.second = TickTimes[i][3]]
           ELSE /\ now.day < MaxDay
                /\ now' = [now EXCEPT !.day = @ + 1,
                                      !.hour = TickTimes[1][1],
                                      !.minute = TickTimes[1][2],
                                      !.second = TickTimes[1][3]]
    /\ UNCHANGED <<images, csv, xlsx, th, appended, nreq>>

\* --------------------------------------------------------- requests
Modes == {"arrival", "departure", "lunch"}
Payloads == {"data:image/jpeg;base64,/9j/4AAQ", "/9j/ 4AAQ", "/9j/4"}

\* every request over the tabled values
AllCheckIns ==
    [ image_base64 : Payloads, mode : Modes,
      lat : {None} \cup DOMAIN LatRepr, lng : {None} \cup DOMAIN LngRepr ]

\* the requests of concurrent clients standing at the office
OfficeCheckIns ==
    [ image_base64 : {"data:image/jpeg;base64,/9j/4AAQ"},
      mode : {"arrival"}, lat : {OFFICE_LAT}, lng : {OFFICE_LNG} ]

\* a request that passes, sent from exactly 50 m, and one request failing
\* each validation step
SeqCheckIns ==
    { [image_base64 |-> "data:image/jpeg;base64,/9j/4AAQ", mode |-> "arrival",
       lat |-> 2, lng |-> 2],
      [image_base64 |-> "/9j/4AAQ", mode |-> "lunch",
       lat |-> OFFICE_LAT, lng |-> OFFICE_LNG],
      [image_base64 |-> "/9j/4AAQ", mode |-> "arrival",
       lat |-> OFFICE_LAT, lng |-> None],
      [image_base64 |-> "/9j/4AAQ", mode |-> "arrival", lat |-> 3, lng |-> 1],
      [image_base64 |-> "/9j/4", mode |-> "arrival",
       lat |-> OFFICE_LAT, lng |-> OFFICE_LNG] }

\* the three modes, from the office
ModeCheckIns ==
    [ image_base64 : {"data:image/jpeg;base64,/9j/4AAQ"},
      mode : Modes, lat : {OFFICE_LAT}, lng : {OFFICE_LNG} ]

\* ---------------------------------------------------- specifications
StartOfRun ==
    /\ images = << >>
    /\ csv = << >>
    /\ xlsx = << >>
    /\ th = [p \in Procs |-> IdleThread]
    /\ appended = << >>
    /\ nreq = [checkin |-> 0, export |-> 0]

Init ==
    /\ now = [year |-> 2026, month |-> 11, day |-> 1,
              hour |-> 8, minute |-> 0, second |-> 0]
    /\ StartOfRun

\* Spec: the worker threads serve requests concurrently; storage may fail
Next ==
    \/ Tick
    \/ \E p \in Procs :
         \/ \E data \in OfficeCheckIns : checkin_begin(p, data)
         \/ checkin_save_image(p)
         \/ checkin_save_image_fails(p)
         \/ checkin_csv_path(p)
         \/ checkin_open(p)
         \/ checkin_open_fails(p)
         \/ checkin_write(p)
         \/ checkin_write_fails(p)
         \/ export_begin(p)
         \/ export_csv_path(p)
         \/ export_build(p)
         \/ finish(p)

Spec == Init /\ [][Next]_vars

\* SpecSeq: requests are served one at a time and storage does not fail
AllIdle == \A q \in Procs : th[q].pc = "idle"

NextSeq ==
    \/ Tick
    \/ \E p \in Procs :
         \/ AllIdle /\ \E data \in SeqCheckIns : checkin_begin(p, data)
         \/ checkin_save_image(p)
         \/ checkin_csv_path(p)
         \/ checkin_open(p)
         \/ checkin_write(p)
         \/ AllIdle /\ export_begin(p)
         \/ export_csv_path(p)
         \/ export_build(p)
         \/ finish(p)

SpecSeq == Init /\ [][NextSeq]_vars

\* SpecClock: one check-in, received at any minute of the day
InitClock ==
    /\ now \in [ year : {2026}, month : {11}, day : {1},
                 hour : 0..23, minute : 0..59, second : {0, 1, 59} ]
    /\ StartOfRun

NextClock ==
    \E p \in Procs :
      \/ nreq.checkin = 0 /\ \E data \in ModeCheckIns : checkin_begin(p, data)
      \/ checkin_save_image(p)
      \/ checkin_csv_path(p)
      \/ checkin_open(p)
      \/ checkin_write(p)
      \/ finish(p)

SpecClock == InitClock /\ [][NextClock]_vars

\* SpecGeo: one check-in, of any mode, from any tabled place, with any payload
NextGeo ==
    \E p \in Procs :
      \/ nreq.checkin = 0 /\ \E data \in AllCheckIns : checkin_begin(p, data)
      \/ checkin_save_image(p)
      \/ checkin_csv_path(p)
      \/ checkin_open(p)
      \/ checkin_write(p)
      \/ finish(p)

SpecGeo == Init /\ [][NextGeo]_vars

\* ------------------------------------------------- reading the store
DigitVal(c) == CHOOSE d \in 0..9 : Digit(d) = c
Num2(s) == 10 * DigitVal(CharAt(s, 1)) + DigitVal(CharAt(s, 2))
HourOf(time_str) == Num2(SubSeq(time_str, 1, 2))
MinuteOf(time_str) == Num2(SubSeq(time_str, 4, 5))
SecondsOf(time_str) ==
    SecondOfDay(HourOf(time_str), MinuteOf(time_str), Num2(SubSeq(time_str, 7, 8)))

\* the partition of the calendar date written date_str
PartitionOf(date_str) == PathJoin(DATA_DIR, "davomat_" \o date_str \o ".csv")

\* the indices of the data rows and of the header rows of a partition
DataIdx(rows) == { i \in DOMAIN rows : rows[i] # HeaderRow }
HeaderIdx(rows) == { i \in DOMAIN rows : rows[i] = HeaderRow }

\* what a partition held before a step (nothing, when it did not exist)
Before(path) == IF path \in DOMAIN csv THEN csv[path] ELSE << >>

\* the completed check-ins that appended to the partition at path, in order
Into(path) ==
    LET Here(a) == a.csv_path = path
    IN  SelectSeq(appended, Here)

\* a check-in that began and appended on one calendar day
SameDay(a) == a.csv_path = PartitionOf(a.date_str)

\* the text of the values a completed check-in appended
RowOf(a) ==
    << a.date_str, a.time_str, a.mode_text, a.status, a.filename,
       LatRepr[a.lat], LngRepr[a.lng], FloatText(Round2(a.dist)) >>

\* a check-in request that ended in one of its four HTTP 400 answers
ValidationFailed(t) == t.pc = "failed" /\ t.data # NoData

\* an export request, at any position
IsExport(t) == t.today # ""

\* --------------------------------------------------------------- C1
\* the four validation failures, read off the request
Invalid(data) ==
    \/ data.mode \notin {"arrival", "departure"}
    \/ data.lat = None
    \/ data.lng = None
    \/ distance_m(data.lat, data.lng, OFFICE_LAT, OFFICE_LNG) > 50 * 1000000
    \/ ~B64Decodable(B64Part(data.image_base64))

\* C1: a check-in whose mode is not arrival or departure, whose latitude or
\* longitude is absent, whose distance is above the radius or whose payload
\* cannot be decoded fails, and the step in which it fails leaves the image
\* store and every log partition exactly as they were.
C1_ValidationFailureWritesNothing ==
    [][ \A p \in Procs :
          /\ (th[p].pc = "idle" /\ th'[p].data # NoData)
                 => (Invalid(th'[p].data) <=> ValidationFailed(th'[p]))
          /\ (th'[p] # th[p] /\ ValidationFailed(th'[p]))
                 => (images' = images /\ csv' = csv) ]_vars

\* a check-in rejected at the last validation step (the payload) while the
\* store already holds an image and a partition
C1_Witness ==
    \E p \in Procs :
        /\ ValidationFailed(th[p])
        /\ th[p].error[1].detail = "Rasm formatida xato"
        /\ DOMAIN images # {}
        /\ DOMAIN csv # {}

\* --------------------------------------------------------------- C2
RowsHaveImages ==
    \A path \in DOMAIN csv : \A i \in DataIdx(csv[path]) :
        PathJoin(IMAGES_DIR, csv[path][i][5]) \in DOMAIN images

\* every data row a step adds is added by a check-in at its write position,
\* names the file that check-in wrote, and that file is already in the store
RowAppendedAfterImage ==
    \A path \in DOMAIN csv' :
        \A i \in (Len(Before(path)) + 1)..Len(csv'[path]) :
            csv'[path][i] # HeaderRow =>
                \E p \in Procs :
                    /\ th[p].pc = "write" /\ th'[p].pc = "done"
                    /\ th[p].csv_path = path
                    /\ csv'[path][i][5] = th[p].filename
                    /\ PathJoin(IMAGES_DIR, th[p].filename) \in DOMAIN images

\* a check-in whose image write failed is over: it appends nothing
FailedImageWriteAppendsNothing ==
    \A p \in Procs :
        (th[p].pc = "save_image" /\ th'[p].pc = "error") => csv' = csv

\* C2: in every reachable state, under any interleaving of check-ins and
\* exports, every data row of every partition names an image file that is
\* in the image store; the row is appended only after the same request
\* wrote that file; a failed image write appends no row.
C2_RowsReferenceWrittenImages ==
    /\ []RowsHaveImages
    /\ [][RowAppendedAfterImage /\ FailedImageWriteAppendsNothing]_vars

\* a row with its image, beside an image no row references (its request's
\* append failed)
C2_Witness ==
    /\ \E path \in DOMAIN csv : DataIdx(csv[path]) # {}
    /\ \E p \in Procs : th[p].pc = "error" /\ th[p].filename # ""
    /\ \E img \in DOMAIN images :
          \A path \in DOMAIN csv : \A i \in DataIdx(csv[path]) :
              PathJoin(IMAGES_DIR, csv[path][i][5]) # img

\* --------------------------------------------------------------- C3
OneHeaderThenRows ==
    \A path \in DOMAIN csv :
        LET S == Into(path)
        IN  (Len(S) >= 1 /\ \A i \in DOMAIN S : SameDay(S[i]))
                => csv[path] = <<HeaderRow>> \o [i \in DOMAIN S |-> RowOf(S[i])]

AppendOnly ==
    \A path \in DOMAIN csv :
        /\ path \in DOMAIN csv'
        /\ Len(csv'[path]) >= Len(csv[path])
        /\ SubSeq(csv'[path], 1, Len(csv[path])) = csv[path]

OneRowPerCheckin ==
    \A p \in Procs :
        (th[p].pc = "write" /\ th'[p].pc = "done") =>
            Cardinality(DataIdx(csv'[th[p].csv_path]))
                = Cardinality(DataIdx(csv[th[p].csv_path])) + 1

\* C3: with requests served one at a time, the partition of a day that
\* received n >= 1 successful check-ins, each begun and appended on that
\* day, is one header row followed by their n data rows in submission
\* order; a successful check-in adds exactly one data row and no step
\* rewrites or removes a row.
C3_OneHeaderThenRowsInOrder ==
    /\ []OneHeaderThenRows
    /\ [][AppendOnly /\ OneRowPerCheckin]_vars

\* two successful check-ins of one day: a header row and two data rows
C3_Witness ==
    \E path \in DOMAIN csv :
        /\ Len(Into(path)) = 2
        /\ \A i \in DOMAIN Into(path) : SameDay(Into(path)[i])
        /\ Len(csv[path]) = 3

\* --------------------------------------------------------------- C4
ArrivalAnswered(t) ==
    t.pc = "done" /\ t.data.mode = "arrival" /\ Len(t.response) = 1

\* C4 as stated: an arrival at 08:00:00 is on-time, at 08:00:01 late, at
\* 07:59:59 on-time.
C4_Original ==
    \A p \in Procs : ArrivalAnswered(th[p]) =>
        /\ th[p].response[1].time = "08:00:00" => ~th[p].response[1].is_late
        /\ th[p].response[1].time = "08:00:01" => th[p].response[1].is_late
        /\ th[p].response[1].time = "07:59:59" => ~th[p].response[1].is_late

\* C4 amended: the seconds are ignored; an arrival at 08:00:00, at 08:00:01
\* and at 07:59:59 is on-time, and an arrival is late exactly from 08:01:00.
C4_LateFromNextMinute ==
    \A p \in Procs : ArrivalAnswered(th[p]) =>
        /\ th[p].response[1].time \in {"08:00:00", "08:00:01", "07:59:59"}
               => ~th[p].response[1].is_late
        /\ th[p].response[1].is_late
               <=> SecondsOf(th[p].response[1].time) >= SecondOfDay(8, 1, 0)

\* an arrival answered on-time at 08:00:01
C4_Witness ==
    \E p \in Procs :
        /\ ArrivalAnswered(th[p])
        /\ th[p].response[1].time = "08:00:01"
        /\ ~th[p].response[1].is_late
        /\ th[p].response[1].status = "O'z vaqtida keldi"

\* --------------------------------------------------------------- C5
ExpectedLate(t) ==
    /\ t.data.mode = "arrival"
    /\ \/ HourOf(t.time_str) > 8
       \/ HourOf(t.time_str) = 8 /\ MinuteOf(t.time_str) > 0

\* C5: at every hour and minute, the lateness flag of a check-in is
\* (mode = arrival and (hour > 8 or (hour = 8 and minute > 0))); a departure
\* is never late and is labelled departed; an arrival is labelled late
\* exactly when the flag is set and on-time otherwise; the answer carries the
\* flag and the label, and the log row carries the same label.
C5_LatenessAndLabels ==
    \A p \in Procs :
        (th[p].data # NoData /\ ValidMode(th[p].data.mode)) =>
            /\ th[p].time_str = StrfTime(now)
            /\ th[p].is_late = ExpectedLate(th[p])
            /\ th[p].data.mode = "departure" => th[p].status = "Ishdan ketdi"
            /\ th[p].data.mode = "arrival" =>
                   th[p].status = IF ExpectedLate(th[p]) THEN "KECHIKIB KELDI"
                                  ELSE "O'z vaqtida keldi"
            /\ th[p].pc = "done" =>
                   /\ th[p].response[1].is_late = ExpectedLate(th[p])
                   /\ th[p].response[1].status = th[p].status
                   /\ \E i \in DataIdx(csv[th[p].csv_path]) :
                          /\ csv[th[p].csv_path][i][5] = th[p].response[1].image_url
                          /\ csv[th[p].csv_path][i][4] = th[p].response[1].status

\* an arrival answered late at 08:01:00
C5_Witness ==
    \E p \in Procs :
        /\ ArrivalAnswered(th[p])
        /\ th[p].response[1].time = "08:01:00"
        /\ th[p].response[1].is_late
        /\ th[p].response[1].status = "KECHIKIB KELDI"

\* --------------------------------------------------------------- C6
GeofenceRejected(t) ==
    /\ t.pc = "failed"
    /\ t.error[1].detail =
           "Siz ish joyi hududida emassiz (taxminiy masofa "
               \o IntText(IntDist(
                      distance_m(t.data.lat, t.data.lng, OFFICE_LAT, OFFICE_LNG)))
               \o " m)."

\* C6: a check-in with a valid mode and both coordinates is rejected as
\* outside the geofence exactly when the computed distance to the office is
\* strictly above 50 m (50 m itself and the office itself pass); every data
\* row stores the distance computed from its own coordinates, and it is at
\* most 50 m.
C6_GeofenceGatesEveryRecord ==
    /\ \A p \in Procs :
          ( /\ th[p].data # NoData
            /\ ValidMode(th[p].data.mode)
            /\ th[p].data.lat # None
            /\ th[p].data.lng # None ) =>
              ( GeofenceRejected(th[p]) <=>
                  distance_m(th[p].data.lat, th[p].data.lng, OFFICE_LAT, OFFICE_LNG)
                      > 50 * 1000000 )
    /\ \A path \in DOMAIN csv : \A i \in DataIdx(csv[path]) :
          \E lat \in DOMAIN LatRepr, lng \in DOMAIN LngRepr :
              /\ csv[path][i][6] = LatRepr[lat]
              /\ csv[path][i][7] = LngRepr[lng]
              /\ csv[path][i][8] =
                     FloatText(Round2(distance_m(lat, lng, OFFICE_LAT, OFFICE_LNG)))
              /\ Round2(distance_m(lat, lng, OFFICE_LAT, OFFICE_LNG)) <= 50 * 100

\* a row recorded from exactly 50 m
C6_Witness ==
    \E path \in DOMAIN csv : \E i \in DataIdx(csv[path]) :
        /\ csv[path][i][6] = LatRepr[2]
        /\ csv[path][i][7] = LngRepr[2]
        /\ csv[path][i][8] = "50.0"

\* --------------------------------------------------------------- C7
\* C7: an export fails, with the not-found answer, exactly when today's
\* partition does not exist; whenever it exists the export succeeds; the
\* export changes neither a partition nor the image store.
C7_ExportFailsOnlyWithoutPartition ==
    [][ \A p \in Procs :
          /\ (th[p].pc = "x_path" /\ th'[p] # th[p])
                 => /\ th'[p].pc = "failed" <=> th'[p].csv_path \notin DOMAIN csv
                    /\ th'[p].pc = "failed" =>
                           th'[p].error[1].detail = "Bugungi davomat topilmadi"
          /\ (th[p].pc = "x_build" /\ th'[p] # th[p])
                 => th'[p].pc = "x_done"
          /\ (IsExport(th[p]) /\ th'[p] # th[p])
                 => (csv' = csv /\ images' = images) ]_vars

\* --------------------------------------------------------------- C8
ExportedRows(path) ==
    <<SheetHeader>> \o
        [ i \in DOMAIN Into(path) |->
            << "", Into(path)[i].date_str, Into(path)[i].time_str,
               Into(path)[i].mode_text, Into(path)[i].status,
               LatRepr[Into(path)[i].lat], LngRepr[Into(path)[i].lng],
               FloatText(Round2(Into(path)[i].dist)) >> ]

C9_HeaderPerAbsentCheck ==
    \A path \in DOMAIN csv :
        Cardinality(HeaderIdx(csv[path]))
            = Cardinality({ i \in DOMAIN Into(path) : ~Into(path)[i].file_exists })

\* a partition of two header rows whose data rows are not in the order of
\* their timestamps
C9_Witness ==
    \E path \in DOMAIN csv :
        /\ Cardinality(HeaderIdx(csv[path])) = 2
        /\ \E i, j \in DataIdx(csv[path]) :
              /\ i < j
              /\ csv[path][i][1] = csv[path][j][1]
              /\ SecondsOf(csv[path][i][2]) > SecondsOf(csv[path][j][2])

\* -------------------------------------------------------------- C10
\* C10: every data row of the partition of date D has the date D and names
\* an image file whose name begins with D.
C10_RowsCarryPartitionDate ==
    \A path \in DOMAIN csv : \A i \in DataIdx(csv[path]) :
        /\ path = PartitionOf(csv[path][i][1])
        /\ path = PartitionOf(SubSeq(csv[path][i][5], 1, 10))
====
